---------------------------- MODULE Spec2Model ----------------------------
(***************************************************************************)
(* Model of push_notifications/gcm.py: the dispatcher that sends one       *)
(* gateway request per registration id, the chunking of bulk dispatches,   *)
(* the string-prefix handling of the gateway response and the canonical-id *)
(* reconciliation of the GCMDevice table.                                  *)
(*                                                                         *)
(* Strings are TLA+ strings (TLC evaluates Len, SubSeq and \o on them), so *)
(* startswith / split are computed character by character as Python does.  *)
(* Python values that reach a caller are records with a "type" field.      *)
(***************************************************************************)
EXTENDS Integers, Sequences, FiniteSets, TLC

VARIABLES
    table,           \* GCMDevice rows: pk -> [registration_id, active]
    max_recipients,  \* SETTINGS["GCM_MAX_RECIPIENTS"]
    pc,              \* position of the (single) dispatching thread
    call,            \* the public function being executed and its registration ids
    chunked,         \* gcm_send_bulk_message took the len > max_recipients branch
    chunks_left,     \* chunks the generator _chunks has still to yield
    cur_left,        \* ids the running _gcm_send_json loop has still to send
    ret,             \* the list `ret` of gcm_send_bulk_message
    result,          \* how the last public call ended: returned value or exception
    requests,        \* ids of the gateway requests issued by the current call
    responses,       \* per _gcm_send_json call, what each _gcm_send_plain returned
    last,            \* the last _gcm_send_plain execution
    start_table,     \* the table when the current call (or concurrent run) began
    proc,            \* concurrent reconcilers: pc, arguments, answer of exists()
    chunk_out        \* list(_chunks(l, n)) of the chunking specification

vars == <<table, max_recipients, pc, call, chunked, chunks_left, cur_left, ret,
          result, requests, responses, last, start_table, proc, chunk_out>>

---------------------------------------------------------------------------
(* Bounds of the model *)

NumRecords == 2
MaxIds == 2
MaxRecipients == 2
ChunkMaxLen == 4
ChunkMaxSize == 3

RegistrationIds == {"a", "b"}

Records == 1..NumRecords

Tables == [Records -> [registration_id : RegistrationIds, active : BOOLEAN]]

RECURSIVE SeqsUpTo(_, _)
SeqsUpTo(S, n) ==
    IF n = 0 THEN {<<>>}
    ELSE LET shorter == SeqsUpTo(S, n - 1)
         IN shorter \cup {Append(s, x) : s \in {t \in shorter : Len(t) = n - 1}, x \in S}

---------------------------------------------------------------------------
(* Python values and exceptions *)

PyNone == [type |-> "NoneType", arg |-> ""]
PyStr(s) == [type |-> "str", arg |-> s]
PyList(items) == [type |-> "list", items |-> items]
Exception(type, arg) == [type |-> type, arg |-> arg]

---------------------------------------------------------------------------
(* str.startswith and str.split for a one-character separator *)

startswith(s, prefix) ==
    /\ Len(s) >= Len(prefix)
    /\ SubSeq(s, 1, Len(prefix)) = prefix

RECURSIVE split(_, _)
split(s, sep) ==
    LET hits == {i \in 1..Len(s) : SubSeq(s, i, i) = sep}
    IN IF hits = {} THEN <<s>>
       ELSE LET i == CHOOSE j \in hits : \A k \in hits : j <= k
            IN <<SubSeq(s, 1, i - 1)>> \o split(SubSeq(s, i + 1, Len(s)), sep)

---------------------------------------------------------------------------
(* _chunks(l, n): for i in range(0, len(l), n): yield l[i:i + n] *)

Slice(l, i, j) == SubSeq(l, i + 1, IF j < Len(l) THEN j ELSE Len(l))

RECURSIVE ChunksFrom(_, _, _)
ChunksFrom(l, n, i) ==
    IF i >= Len(l) THEN <<>>
    ELSE <<Slice(l, i, i + n)>> \o ChunksFrom(l, n, i + n)

RECURSIVE Reversed(_)
Reversed(s) == IF s = <<>> THEN <<>> ELSE Append(Reversed(Tail(s)), Head(s))

\* mutant: the chunks come out last first
_chunks_reversed(l, n) == Reversed(ChunksFrom(l, n, 0))

\* mutant: the slice is one short, l[i:i + n - 1]
_chunks_short(l, n) ==
    [k \in 1..Len(ChunksFrom(l, n, 0)) |-> Slice(l, (k - 1) * n, (k - 1) * n + n - 1)]

_chunks(l, n) == ChunksFrom(l, n, 0)

---------------------------------------------------------------------------
(* The GCMDevice queries of this file *)

\* GCMDevice.objects.filter(registration_id=rid, active=True).exists()
ActiveExists(tbl, rid) ==
    \E r \in DOMAIN tbl : tbl[r].registration_id = rid /\ tbl[r].active

\* GCMDevice.objects.filter(registration_id=rid).update(active=False)
Deactivate(tbl, rid) ==
    [r \in DOMAIN tbl |->
        IF tbl[r].registration_id = rid THEN [tbl[r] EXCEPT !.active = FALSE]
        ELSE tbl[r]]

\* GCMDevice.objects.filter(registration_id=rid).update(registration_id=new_id)
Rewrite(tbl, rid, new_id) ==
    [r \in DOMAIN tbl |->
        IF tbl[r].registration_id = rid THEN [tbl[r] EXCEPT !.registration_id = new_id]
        ELSE tbl[r]]

\* the update _gcm_handle_canonical_id issues once exists() has answered `found`
CanonicalUpdate(tbl, found, canonical_id, current_id) ==
    IF found THEN Deactivate(tbl, current_id)
    ELSE Rewrite(tbl, current_id, canonical_id)

\* mutant: the branches are swapped
_gcm_handle_canonical_id_swapped(tbl, canonical_id, current_id) ==
    CanonicalUpdate(tbl, ~ActiveExists(tbl, canonical_id), canonical_id, current_id)

\* mutant: the else branch rewrites every row that does not carry the new id
_gcm_handle_canonical_id_wide(tbl, canonical_id, current_id) ==
    IF ActiveExists(tbl, canonical_id) THEN Deactivate(tbl, current_id)
    ELSE [r \in DOMAIN tbl |-> [tbl[r] EXCEPT !.registration_id = canonical_id]]

_gcm_handle_canonical_id(tbl, canonical_id, current_id) ==
    CanonicalUpdate(tbl, ActiveExists(tbl, canonical_id), canonical_id, current_id)

---------------------------------------------------------------------------
(* What one gateway call can produce: _get_access_token or the reading of  *)
(* the credentials file raises before any request, urlopen raises, or the  *)
(* decoded response body comes back.                                       *)

GatewayResponses ==
    {"id=1", "id=1\nerror=x", "id=1\nregistration_id", "id=1\nregistration_id=x=a",
     "Error=NotRegistered", "Error=InvalidRegistration", "Error=MismatchSenderId",
     "{}"}
    \cup {"id=1\nregistration_id=" \o c : c \in RegistrationIds}

Outcomes ==
    {[kind |-> "auth_error", body |-> ""], [kind |-> "transport_error", body |-> ""]}
    \cup {[kind |-> "response", body |-> b] : b \in GatewayResponses}

\* the outcomes drawn for the sends of a bulk dispatch: one of each kind of ending
BulkResponses ==
    {"id=1", "Error=NotRegistered", "Error=MismatchSenderId"}
    \cup {"id=1\nregistration_id=" \o c : c \in RegistrationIds}

BulkOutcomes == {o \in Outcomes : o.kind = "response" => o.body \in BulkResponses}

\* a finished _gcm_send_plain: the table it leaves, how it ended, whether the
\* request went out and the calls of _gcm_handle_canonical_id it made
Sent(tbl, status, value, requested, reconciled) ==
    [table |-> tbl, status |-> status, value |-> value, requested |-> requested,
     reconciled |-> reconciled]

\* mutant: split("=")[1] instead of split("=")[-1]
new_id_second(line) ==
    LET parts == split(line, "=") IN IF Len(parts) > 1 THEN parts[2] ELSE parts[1]

\* new_id = lines[1].split("=")[-1]
new_id_of(line) == LET parts == split(line, "=") IN parts[Len(parts)]

\* mutant: every "Error=" response counts as a dead registration
recoverable_any(res) == TRUE

\* result in ("Error=NotRegistered", "Error=InvalidRegistration")
recoverable(res) == res \in {"Error=NotRegistered", "Error=InvalidRegistration"}

\* the response handling of _gcm_send_plain, after _gcm_send returned `res`
handle_response(tbl, registration_id, res) ==
    IF startswith(res, "id") THEN
        LET lines == split(res, "\n")
        IN IF Len(lines) > 1 /\ startswith(lines[2], "registration_id")
           THEN LET new_id == new_id_of(lines[2])
                IN Sent(_gcm_handle_canonical_id(tbl, new_id, registration_id),
                        "return", PyStr(res), TRUE, <<<<new_id, registration_id>>>>)
           ELSE Sent(tbl, "return", PyStr(res), TRUE, <<>>)
    ELSE IF startswith(res, "Error=") THEN
        IF recoverable(res)
        \* `values` is bound nowhere: evaluating values["registration_id"] raises
        \* NameError before the filter and the update run
        THEN Sent(tbl, "raise", Exception("NameError", "values"), TRUE, <<>>)
        ELSE Sent(tbl, "raise", Exception("GCMError", res), TRUE, <<>>)
    ELSE Sent(tbl, "return", PyStr(res), TRUE, <<>>)

_gcm_send_plain(tbl, registration_id, outcome) ==
    IF outcome.kind = "auth_error"
    THEN Sent(tbl, "raise", Exception("AuthError", ""), FALSE, <<>>)
    ELSE IF outcome.kind = "transport_error"
    THEN Sent(tbl, "raise", Exception("URLError", ""), TRUE, <<>>)
    ELSE handle_response(tbl, registration_id, outcome.body)

\* the record kept of a _gcm_send_plain execution
Execution(tbl, registration_id, outcome, sent) ==
    [registration_id |-> registration_id, outcome |-> outcome, before |-> tbl,
     status |-> sent.status, value |-> sent.value, reconciled |-> sent.reconciled]

NoExecution ==
    [registration_id |-> "", outcome |-> [kind |-> "none", body |-> ""],
     before |-> <<>>, status |-> "none", value |-> PyNone, reconciled |-> <<>>]

NoCall == [op |-> "none", registration_ids |-> <<>>]
NoResult == [status |-> "none", value |-> PyNone]

---------------------------------------------------------------------------
(* The dispatching thread *)

Init ==
    /\ table \in Tables
    /\ max_recipients \in 1..MaxRecipients
    /\ pc = "idle"
    /\ call = NoCall
    /\ chunked = FALSE
    /\ chunks_left = <<>>
    /\ cur_left = <<>>
    /\ ret = <<>>
    /\ result = NoResult
    /\ requests = <<>>
    /\ responses = <<>>
    /\ last = NoExecution
    /\ start_table = table
    /\ proc = <<>>
    /\ chunk_out = <<>>

\* gcm_send_message(registration_id, data): one _gcm_send_plain, its result returned
gcm_send_message(registration_id, outcome) ==
    LET sent == _gcm_send_plain(table, registration_id, outcome)
    IN /\ pc = "idle"
       /\ call' = [op |-> "gcm_send_message", registration_ids |-> <<registration_id>>]
       /\ start_table' = table
       /\ table' = sent.table
       /\ last' = Execution(table, registration_id, outcome, sent)
       /\ requests' = IF sent.requested THEN <<registration_id>> ELSE <<>>
       /\ responses' = IF sent.status = "return" THEN <<<<sent.value>>>> ELSE <<<<>>>>
       /\ result' = [status |-> sent.status, value |-> sent.value]
       /\ pc' = "done"
       /\ UNCHANGED <<max_recipients, chunked, chunks_left, cur_left, ret, proc,
                      chunk_out>>

\* len(registration_ids) > max_recipients
over_limit(registration_ids, limit) == Len(registration_ids) > limit

\* gcm_send_bulk_message up to the first _gcm_send_json call
gcm_send_bulk_message(registration_ids) ==
    LET split_up == over_limit(registration_ids, max_recipients)
        chunks == IF split_up THEN _chunks(registration_ids, max_recipients)
                  ELSE <<registration_ids>>
    IN /\ pc = "idle"
       /\ pc' = "json"
       /\ call' = [op |-> "gcm_send_bulk_message", registration_ids |-> registration_ids]
       /\ start_table' = table
       /\ chunked' = split_up
       /\ cur_left' = Head(chunks)
       /\ chunks_left' = Tail(chunks)
       /\ ret' = <<>>
       /\ result' = NoResult
       /\ requests' = <<>>
       /\ responses' = <<<<>>>>
       /\ last' = NoExecution
       /\ UNCHANGED <<table, max_recipients, proc, chunk_out>>

\* one iteration of the loop of _gcm_send_json; an exception leaves every frame
json_send(outcome) ==
    LET registration_id == Head(cur_left)
        sent == _gcm_send_plain(table, registration_id, outcome)
    IN /\ pc = "json"
       /\ cur_left # <<>>
       /\ table' = sent.table
       /\ last' = Execution(table, registration_id, outcome, sent)
       /\ requests' = IF sent.requested THEN Append(requests, registration_id)
                      ELSE requests
       /\ IF sent.status = "raise"
          THEN /\ pc' = "done"
               /\ result' = [status |-> "raise", value |-> sent.value]
               /\ UNCHANGED <<cur_left, responses>>
          ELSE /\ cur_left' = Tail(cur_left)
               /\ responses' = [responses EXCEPT ![Len(responses)] = Append(@, sent.value)]
               /\ UNCHANGED <<pc, result>>
       /\ UNCHANGED <<max_recipients, call, chunked, chunks_left, ret, start_table,
                      proc, chunk_out>>

\* _gcm_send_json has no return statement: its value is None
json_value(got) == PyNone

\* the loop of _gcm_send_json is over: back in gcm_send_bulk_message
json_return ==
    LET value == json_value(responses[Len(responses)])
    IN /\ pc = "json"
       /\ cur_left = <<>>
       /\ IF ~chunked
          THEN /\ pc' = "done"
               /\ result' = [status |-> "return", value |-> value]
               /\ UNCHANGED <<ret, cur_left, chunks_left, responses>>
          ELSE /\ ret' = Append(ret, value)
               /\ IF chunks_left # <<>>
                  THEN /\ cur_left' = Head(chunks_left)
                       /\ chunks_left' = Tail(chunks_left)
                       /\ responses' = Append(responses, <<>>)
                       /\ UNCHANGED <<pc, result>>
                  ELSE /\ pc' = "done"
                       /\ result' = [status |-> "return", value |-> PyList(ret')]
                       /\ UNCHANGED <<cur_left, chunks_left, responses>>
       /\ UNCHANGED <<table, max_recipients, call, chunked, requests, last,
                      start_table, proc, chunk_out>>

\* the caller has the value or the exception; the frames of the call are gone
call_ends ==
    /\ pc = "done"
    /\ pc' = "idle"
    /\ call' = NoCall
    /\ chunked' = FALSE
    /\ chunks_left' = <<>>
    /\ cur_left' = <<>>
    /\ ret' = <<>>
    /\ result' = NoResult
    /\ requests' = <<>>
    /\ responses' = <<>>
    /\ last' = NoExecution
    /\ start_table' = table
    /\ UNCHANGED <<table, max_recipients, proc, chunk_out>>

Next ==
    \/ \E registration_id \in RegistrationIds, outcome \in Outcomes :
           gcm_send_message(registration_id, outcome)
    \/ \E registration_ids \in SeqsUpTo(RegistrationIds, MaxIds) :
           gcm_send_bulk_message(registration_ids)
    \/ \E outcome \in BulkOutcomes : json_send(outcome)
    \/ json_return
    \/ call_ends

Spec == Init /\ [][Next]_vars

---------------------------------------------------------------------------
(* _chunks on its own: every list up to ChunkMaxLen, every size up to      *)
(* ChunkMaxSize                                                            *)

InitChunks ==
    /\ table = [r \in Records |-> [registration_id |-> "a", active |-> TRUE]]
    /\ max_recipients \in 1..ChunkMaxSize
    /\ pc = "chunks_call"
    /\ call \in {[op |-> "_chunks", registration_ids |-> l] :
                    l \in SeqsUpTo(RegistrationIds, ChunkMaxLen)}
    /\ chunked = FALSE
    /\ chunks_left = <<>>
    /\ cur_left = <<>>
    /\ ret = <<>>
    /\ result = NoResult
    /\ requests = <<>>
    /\ responses = <<>>
    /\ last = NoExecution
    /\ start_table = table
    /\ proc = <<>>
    /\ chunk_out = <<>>

\* list(_chunks(l, n))
chunks_list ==
    /\ pc = "chunks_call"
    /\ pc' = "chunks_done"
    /\ chunk_out' = _chunks(call.registration_ids, max_recipients)
    /\ UNCHANGED <<table, max_recipients, call, chunked, chunks_left, cur_left, ret,
                   result, requests, responses, last, start_table, proc>>

NextChunks == chunks_list

SpecChunks == InitChunks /\ [][NextChunks]_vars

---------------------------------------------------------------------------
(* Two dispatches, each inside _gcm_handle_canonical_id: the exists() query *)
(* and the update are two statements against the shared table, with no     *)
(* lock and no transaction around them.                                    *)

Procs == {"d1", "d2"}

\* the ids the gateway may name as canonical: the known ones and a fresh one
CanonicalIds == RegistrationIds \cup {"c"}

InitRace ==
    /\ table \in Tables
    /\ start_table = table
    /\ proc \in [Procs -> {[pc |-> "exists", canonical_id |-> c, current_id |-> x,
                            found |-> FALSE, stale |-> FALSE] :
                               c \in CanonicalIds, x \in RegistrationIds}]
    /\ max_recipients = 1
    /\ pc = "race"
    /\ call = NoCall
    /\ chunked = FALSE
    /\ chunks_left = <<>>
    /\ cur_left = <<>>
    /\ ret = <<>>
    /\ result = NoResult
    /\ requests = <<>>
    /\ responses = <<>>
    /\ last = NoExecution
    /\ chunk_out = <<>>

\* if GCMDevice.objects.filter(registration_id=canonical_id, active=True).exists():
reconcile_exists(p) ==
    /\ proc[p].pc = "exists"
    /\ proc' = [proc EXCEPT ![p].pc = "update",
                            ![p].found = ActiveExists(table, proc[p].canonical_id)]
    /\ UNCHANGED <<table, max_recipients, pc, call, chunked, chunks_left, cur_left,
                   ret, result, requests, responses, last, start_table, chunk_out>>

\* the update of the branch taken; `stale` notes that the answer of exists()
\* no longer holds of the table the update runs on
reconcile_update(p) ==
    /\ proc[p].pc = "update"
    /\ table' = CanonicalUpdate(table, proc[p].found, proc[p].canonical_id,
                                proc[p].current_id)
    /\ proc' = [proc EXCEPT ![p].pc = "done",
                            ![p].stale = (proc[p].found
                                          # ActiveExists(table, proc[p].canonical_id))]
    /\ UNCHANGED <<max_recipients, pc, call, chunked, chunks_left, cur_left, ret,
                   result, requests, responses, last, start_table, chunk_out>>

NextRace ==
    \/ \E p \in Procs : reconcile_exists(p)
    \/ \E p \in Procs : reconcile_update(p)

SpecRace == InitRace /\ [][NextRace]_vars

---------------------------------------------------------------------------
(* Vocabulary of the properties.  The parsing of a response is restated    *)
(* here by character positions, independently of split.                    *)

Positions(s, c) == {i \in 1..Len(s) : SubSeq(s, i, i) = c}
Least(S) == CHOOSE i \in S : \A j \in S : i <= j
Greatest(S) == CHOOSE i \in S : \A j \in S : i >= j

HasSecondLine(s) == Positions(s, "\n") # {}

SecondLine(s) ==
    LET rest == SubSeq(s, Least(Positions(s, "\n")) + 1, Len(s))
    IN IF Positions(rest, "\n") = {} THEN rest
       ELSE SubSeq(rest, 1, Least(Positions(rest, "\n")) - 1)

\* the text after the last "=" of a line (the whole line when it has none)
AfterLastEquals(line) ==
    IF Positions(line, "=") = {} THEN line
    ELSE SubSeq(line, Greatest(Positions(line, "=")) + 1, Len(line))

BeginsWith(s, prefix) == \E n \in 0..Len(s) : SubSeq(s, 1, n) = prefix

GotResponse == last.outcome.kind = "response"
Body == last.outcome.body
SingleDone == pc = "done" /\ call.op = "gcm_send_message"
InBulk == call.op = "gcm_send_bulk_message"
BulkReturned == InBulk /\ pc = "done" /\ result.status = "return"
BulkRaised == InBulk /\ pc = "done" /\ result.status = "raise"

IsPrefix(p, s) == Len(p) <= Len(s) /\ p = SubSeq(s, 1, Len(p))

RECURSIVE Flatten(_)
Flatten(ss) == IF ss = <<>> THEN <<>> ELSE Head(ss) \o Flatten(Tail(ss))

UniqueActive(tbl) ==
    \A r1, r2 \in DOMAIN tbl :
        (tbl[r1].active /\ tbl[r2].active
         /\ tbl[r1].registration_id = tbl[r2].registration_id) => r1 = r2

Reconciled == last.reconciled # <<>>
NewId == last.reconciled[1][1]
OldId == last.reconciled[1][2]

---------------------------------------------------------------------------
(* C1: a send to X answered exactly "Error=NotRegistered" or               *)
(* "Error=InvalidRegistration" returns the response without raising and    *)
(* leaves every row whose registration_id is X inactive.                   *)
C1_RecoverableErrorDeactivates ==
    (GotResponse /\ Body \in {"Error=NotRegistered", "Error=InvalidRegistration"}) =>
        /\ last.status = "return"
        /\ last.value = PyStr(Body)
        /\ SingleDone => result = [status |-> "return", value |-> PyStr(Body)]
        /\ \A r \in DOMAIN table :
               table[r].registration_id = last.registration_id => ~table[r].active

(* C2: a bulk dispatch that raises nothing returns the raw responses: one  *)
(* list of responses per chunk when the list was split, the responses of   *)
(* the identifiers otherwise; never a value without them when a request    *)
(* went out.                                                               *)
C2_BulkReturnsResponses ==
    (BulkReturned /\ requests # <<>>) =>
        result.value =
            IF chunked
            THEN PyList([k \in 1..Len(responses) |-> PyList(responses[k])])
            ELSE PyList(responses[1])

(* C3: reconciliation of (new, old).  With an active row carrying new,     *)
(* every row carrying old becomes inactive and keeps old; with none, every *)
(* row carrying old carries new afterwards, its active flag as before.     *)
(* Either way the rows are the same rows, and a row carrying neither id is *)
(* untouched.                                                              *)
C3_Reconciliation ==
    Reconciled =>
        LET before == last.before
            olds == {r \in DOMAIN before : before[r].registration_id = OldId}
        IN /\ DOMAIN table = DOMAIN before
           /\ IF \E r \in DOMAIN before :
                     before[r].registration_id = NewId /\ before[r].active
              THEN \A r \in olds :
                       table[r] = [registration_id |-> OldId, active |-> FALSE]
              ELSE \A r \in olds :
                       table[r] = [registration_id |-> NewId,
                                   active |-> before[r].active]
           /\ \A r \in DOMAIN before :
                  before[r].registration_id \notin {NewId, OldId}
                      => table[r] = before[r]

\* a row was rewritten to a new id that an inactive row carried already
C3_Witness ==
    /\ Reconciled
    /\ NewId # OldId
    /\ \E r \in DOMAIN table : last.before[r].registration_id = OldId
                               /\ table[r].registration_id = NewId
    /\ \E r \in DOMAIN table : last.before[r] = [registration_id |-> NewId,
                                                 active |-> FALSE]

(* C4: a send to X answered with a body that begins with "id".  When its   *)
(* second line begins with "registration_id", reconciliation runs exactly  *)
(* once, with new id the text after the last "=" of that line and old id   *)
(* X, and the body is returned; otherwise reconciliation does not run and  *)
(* the table is as before.                                                 *)
C4_CanonicalIdExtraction ==
    (GotResponse /\ BeginsWith(Body, "id")) =>
        IF HasSecondLine(Body) /\ BeginsWith(SecondLine(Body), "registration_id")
        THEN /\ last.reconciled =
                    <<<<AfterLastEquals(SecondLine(Body)), last.registration_id>>>>
             /\ table = _gcm_handle_canonical_id(last.before,
                            AfterLastEquals(SecondLine(Body)), last.registration_id)
             /\ last.status = "return"
             /\ last.value = PyStr(Body)
             /\ SingleDone => result = [status |-> "return", value |-> PyStr(Body)]
        ELSE /\ last.reconciled = <<>>
             /\ table = last.before

\* the second line holds two "=": the new id is what follows the last one
C4_Witness ==
    /\ SingleDone
    /\ GotResponse
    /\ Body = "id=1\nregistration_id=x=a"
    /\ last.reconciled = <<<<"a", last.registration_id>>>>
    /\ result.status = "return"

(* C5: a send answered with a body that begins with "Error=" and is not    *)
(* one of the two recoverable errors raises GCMError carrying the body,    *)
(* and the table is as before.                                             *)
C5_OtherErrorRaises ==
    (GotResponse /\ BeginsWith(Body, "Error=")
     /\ Body \notin {"Error=NotRegistered", "Error=InvalidRegistration"}) =>
        /\ last.status = "raise"
        /\ last.value = Exception("GCMError", Body)
        /\ table = last.before
        /\ pc = "done" => result = [status |-> "raise",
                                    value |-> Exception("GCMError", Body)]

C5_Witness ==
    /\ pc = "done"
    /\ GotResponse
    /\ Body = "Error=MismatchSenderId"
    /\ result.status = "raise"
    /\ \E r \in DOMAIN table : table[r].registration_id = last.registration_id
                               /\ table[r].active

C7_BulkOrderAndAbort ==
    InBulk =>
        LET ids == call.registration_ids
            completed == Len(Flatten(responses))
        IN /\ IsPrefix(requests, ids)
           /\ Len(ids) = max_recipients => (~chunked /\ Len(responses) = 1)
           /\ BulkReturned => requests = ids
           /\ BulkRaised =>
                  /\ last.status = "raise"
                  /\ completed < Len(ids)
                  /\ last.registration_id = ids[completed + 1]
                  /\ Len(requests) = IF last.outcome.kind = "auth_error"
                                     THEN completed ELSE completed + 1
                  /\ table = last.before

\* the second send raised after the first had changed the table
C7_Witness ==
    /\ BulkRaised
    /\ Len(requests) >= 1
    /\ Len(requests) < Len(call.registration_ids)
    /\ table # start_table

\* the tables the serial orders of the dispatches' reconciliations produce
Reconcile(tbl, p) ==
    _gcm_handle_canonical_id(tbl, proc[p].canonical_id, proc[p].current_id)

RECURSIVE SerialFrom(_, _)
SerialFrom(tbl, todo) ==
    IF todo = {} THEN {tbl}
    ELSE UNION {SerialFrom(Reconcile(tbl, p), todo \ {p}) : p \in todo}

AllDone == pc = "race" /\ \A p \in Procs : proc[p].pc = "done"

C9_ActiveRowSurvives ==
    (Reconciled /\ last.status = "return"
     /\ \E r \in DOMAIN last.before :
            last.before[r].registration_id = OldId /\ last.before[r].active) =>
        \E r \in DOMAIN table : table[r].registration_id = NewId /\ table[r].active

(* C10: in a single-threaded run no step takes a table whose active rows   *)
(* carry distinct ids to one where two active rows share an id, and no     *)
(* step turns an inactive row active.                                      *)
C10_UniqueActivePreserved ==
    [][/\ UniqueActive(table) => UniqueActive(table')
       /\ \A r \in DOMAIN table : ~table[r].active => ~table'[r].active]_vars

\* a bulk dispatch whose sends rewrote and deactivated rows of a table with
\* distinct active ids
C10_Witness ==
    /\ InBulk
    /\ Reconciled
    /\ UniqueActive(start_table)
    /\ \E r \in DOMAIN table : start_table[r].active /\ ~table[r].active
    /\ \E r \in DOMAIN table :
           start_table[r].registration_id # table[r].registration_id
    /\ UniqueActive(table)

=============================================================================
